---- MODULE Spec2Model ----
(***************************************************************************)
(* Model of the soccer slot manager (FastAPI application, app/main.py):    *)
(* the Users, InvitationTokens and Slots collections, the wall clock, and  *)
(* the request handlers that read and write them.                          *)
(*                                                                         *)
(* Strings are sequences of tokens.  The tokens "(Invite)", " ", "[par"    *)
(* and "]" stand for the literal pieces of the guest display format        *)
(* "(Invité) <name> [par <inviter>]"; every other token is a word.         *)
(* Times are seconds since Monday 00:00:00 of week 0 (naive local time).   *)
(***************************************************************************)
EXTENDS Integers, Sequences, FiniteSets, TLC

VARIABLES
    now,          \* the wall clock, datetime.now()
    users,        \* the Users collection, in insertion order
    nextUid,      \* the next fresh ObjectId of a user document
    invitations,  \* the InvitationTokens collection, in insertion order
    slots,        \* the Slots collection, in insertion order
    resp,         \* the response of the last completed request
    procs         \* the requests in flight: each one's position and locals

vars == <<now, users, nextUid, invitations, slots, resp, procs>>

-----------------------------------------------------------------------------
(* Program constants                                                       *)

MAX_PLAYERS == 10
MATCH_HOUR == 19
MATCH_MINUTE == 0
MATCH_DAY == 2

(* Bounds of the model                                                     *)

\* guests already registered (by the admin) in the slot the model starts with
SeedGuests == 7
\* the ObjectIds the Users collection may hand out
MaxUid == 4
\* the invitation tokens that may be stored at a time
MaxInvites == 1

-----------------------------------------------------------------------------
(* Strings                                                                 *)

Str(w) == <<w>>

StartsWith(s, p) == Len(s) >= Len(p) /\ SubSeq(s, 1, Len(p)) = p

\* the index of the first occurrence of sep in s, 0 when there is none
IndexOf(s, sep) ==
    LET hits == { i \in 1..(Len(s) - Len(sep) + 1) :
                      SubSeq(s, i, i + Len(sep) - 1) = sep }
    IN  IF hits = {} THEN 0 ELSE CHOOSE i \in hits : \A j \in hits : i <= j

\* str.split(sep): the pieces of s between the occurrences of sep
RECURSIVE Split(_, _)
Split(s, sep) ==
    LET i == IndexOf(s, sep)
    IN  IF i = 0 THEN <<s>>
        ELSE <<SubSeq(s, 1, i - 1)>> \o Split(SubSeq(s, i + Len(sep), Len(s)), sep)

InvitePrefix == <<"(Invite)">>
InviteSep == <<"(Invite)", " ">>
ParSep == <<" ", "[par", " ">>

\* f"(Invité) {g['name']} [par {g['invitedBy']}]"
GuestDisplay(g) == InviteSep \o g.name \o ParSep \o g.invitedBy \o <<"]">>

-----------------------------------------------------------------------------
(* Time                                                                    *)

DaySeconds == 24 * 3600

\* the instant of weekday wd (0 = Monday), h:m:s, in week w
At(w, wd, h, m, s) == (7 * w + wd) * DaySeconds + h * 3600 + m * 60 + s

weekday(t) == (t \div DaySeconds) % 7
hour(t) == (t % DaySeconds) \div 3600

\* t.replace(hour=h, minute=m, second=0, microsecond=0)
ReplaceTime(t, h, m) == (t \div DaySeconds) * DaySeconds + h * 3600 + m * 60

\* get_next_wednesday_at_19 adding a week only when days_ahead < 0
get_next_wednesday_at_19_NoWrap(t) ==
    IF weekday(t) = MATCH_DAY /\ hour(t) < MATCH_HOUR
    THEN ReplaceTime(t, MATCH_HOUR, MATCH_MINUTE)
    ELSE LET d0 == MATCH_DAY - weekday(t)
             days_ahead == IF d0 < 0 THEN d0 + 7 ELSE d0
         IN  ReplaceTime(t + days_ahead * DaySeconds, MATCH_HOUR, MATCH_MINUTE)

\* get_next_wednesday_at_19 staying on today's match until the registration
\* window ends at 20:00
get_next_wednesday_at_19_UntilWindowEnd(t) ==
    IF weekday(t) = MATCH_DAY /\ hour(t) < 20
    THEN ReplaceTime(t, MATCH_HOUR, MATCH_MINUTE)
    ELSE LET d0 == MATCH_DAY - weekday(t)
             days_ahead == IF d0 <= 0 THEN d0 + 7 ELSE d0
         IN  ReplaceTime(t + days_ahead * DaySeconds, MATCH_HOUR, MATCH_MINUTE)

get_next_wednesday_at_19(t) ==
    IF weekday(t) = MATCH_DAY /\ hour(t) < MATCH_HOUR
    THEN ReplaceTime(t, MATCH_HOUR, MATCH_MINUTE)
    ELSE LET d0 == MATCH_DAY - weekday(t)
             days_ahead == IF d0 <= 0 THEN d0 + 7 ELSE d0
         IN  ReplaceTime(t + days_ahead * DaySeconds, MATCH_HOUR, MATCH_MINUTE)

\* get_next_wednesday of the Flask variant: (2 - today.weekday()) % 7 days
\* on, 7 when that is 0 and the hour is 19 or later, and 7 again for any 0
\* that is left
get_next_wednesday(t) ==
    LET d0 == (2 - weekday(t)) % 7
        days_until_wednesday == IF d0 = 0 /\ hour(t) >= 19 THEN 7 ELSE d0
        days == IF days_until_wednesday # 0 THEN days_until_wednesday ELSE 7
    IN  ReplaceTime(t + days * DaySeconds, 19, 0)

\* is_registration_open with the tests of Monday and Wednesday on the
\* weekday alone
is_registration_open_WholeDays(t) ==
    \/ weekday(t) = 0
    \/ weekday(t) = 1
    \/ weekday(t) = 2

is_registration_open(t) ==
    \/ weekday(t) = 0 /\ hour(t) >= 12
    \/ weekday(t) = 1
    \/ weekday(t) = 2 /\ hour(t) < 20

-----------------------------------------------------------------------------
(* Documents and queries                                                   *)

None == <<>>
Some(x) == <<x>>

\* str(user["_id"]): the text of an ObjectId
UidStr(n) == <<ToString(n)>>

RECURSIVE SelectSeq2(_, _)
\* the subsequence of s whose elements are not in the set drop
SelectSeq2(s, drop) ==
    IF s = <<>> THEN <<>>
    ELSE IF Head(s) \in drop THEN SelectSeq2(Tail(s), drop)
         ELSE <<Head(s)>> \o SelectSeq2(Tail(s), drop)

\* find_one returns the first match: the least index in hits, 0 if none
First(hits) ==
    IF hits = {} THEN 0 ELSE CHOOSE i \in hits : \A j \in hits : i <= j

\* users.find_one({"username": name})
FindUserIdx(us, name) == First({ i \in 1..Len(us) : us[i].username = name })

\* the admin lookup without the role in the query
FindAdminIdx_AnyRole(us, name) ==
    First({ i \in 1..Len(us) : us[i].username = name })

\* users.find_one({"username": name, "role": "admin"})
FindAdminIdx(us, name) ==
    First({ i \in 1..Len(us) : us[i].username = name /\ us[i].role = "admin" })

\* collection.find_one({"date": d})
FindSlotIdx(ss, d) == First({ i \in 1..Len(ss) : ss[i].date = d })

\* the slot document inserted when none exists for the date
NewSlot(d) ==
    [date |-> d, players |-> <<>>, guests |-> <<>>, teamA |-> <<>>,
     teamB |-> <<>>, teamAScore |-> None, teamBScore |-> None]

\* len(slot.get("players", [])) + len(slot.get("guests", []))
TotalRegistered(slot) == Len(slot.players) + Len(slot.guests)

Range(s) == { s[i] : i \in 1..Len(s) }

PlayerEntry(user, t) ==
    [user_id |-> UidStr(user.id), username |-> user.username, registeredAt |-> t]

\* guest_id = "guest_" + md5(name + timestamp)[:8]
GuestId(name, t) == <<"guest_">> \o name \o <<ToString(t)>>

GuestEntry(name, user, t) ==
    [guest_id |-> GuestId(name, t), name |-> name,
     invitedBy_id |-> UidStr(user.id), invitedBy |-> user.username,
     registeredAt |-> t]

\* update_one({"date": d}, {"$push": {"players": entry}}): the first match
PushPlayer(ss, d, entry) ==
    LET i == FindSlotIdx(ss, d)
    IN  IF i = 0 THEN ss
        ELSE [ss EXCEPT ![i].players = Append(@, entry)]

\* update_one({"date": d}, {"$push": {"guests": entry}})
PushGuest(ss, d, entry) ==
    LET i == FindSlotIdx(ss, d)
    IN  IF i = 0 THEN ss
        ELSE [ss EXCEPT ![i].guests = Append(@, entry)]

\* update_one({"date": d}, {"$pull": {"players": {"username": name}}})
PullPlayers(ss, d, name) ==
    LET i == FindSlotIdx(ss, d)
    IN  IF i = 0 THEN ss
        ELSE [ss EXCEPT ![i].players =
                 SelectSeq2(@, { p \in Range(@) : p.username = name })]

\* update_one({"date": d}, {"$pull": {"guests": {"name": name}}})
PullGuests(ss, d, name) ==
    LET i == FindSlotIdx(ss, d)
    IN  IF i = 0 THEN ss
        ELSE [ss EXCEPT ![i].guests =
                 SelectSeq2(@, { g \in Range(@) : g.name = name })]

-----------------------------------------------------------------------------
(* Responses                                                               *)

\* guests_list + players_list
DisplayList_GuestsFirst(slot) ==
    [i \in 1..Len(slot.guests) |-> GuestDisplay(slot.guests[i])]
    \o [i \in 1..Len(slot.players) |-> slot.players[i].username]

\* players_list + guests_list
DisplayList(slot) ==
    [i \in 1..Len(slot.players) |-> slot.players[i].username]
    \o [i \in 1..Len(slot.guests) |-> GuestDisplay(slot.guests[i])]

\* player_timestamps + guest_timestamps
Timestamps(slot) ==
    [i \in 1..Len(slot.players) |-> slot.players[i].registeredAt]
    \o [i \in 1..Len(slot.guests) |-> slot.guests[i].registeredAt]

\* has: the response is a SlotResponse
NoView == [has |-> FALSE, date |-> 0, players |-> <<>>, player_count |-> 0,
           timestamps |-> <<>>, teamA |-> <<>>, teamB |-> <<>>,
           teamAScore |-> <<>>, teamBScore |-> <<>>]

\* SlotResponse(date, players, player_count, timestamps, teamA=[], teamB=[],
\* teamAScore, teamBScore) of the slot as re-read
SlotView(slot) ==
    [has |-> TRUE, date |-> slot.date, players |-> DisplayList(slot),
     player_count |-> TotalRegistered(slot), timestamps |-> Timestamps(slot),
     teamA |-> <<>>, teamB |-> <<>>,
     teamAScore |-> slot.teamAScore, teamBScore |-> slot.teamBScore]

\* the ids the players of a slot go by, and the ids its guests go by
PlayerIds(slot) == [i \in 1..Len(slot.players) |-> slot.players[i].user_id]
GuestIds(slot) == [i \in 1..Len(slot.guests) |-> slot.guests[i].guest_id]

RECURSIVE TeamDetails(_, _)
\* the team details loop: an id resolves to the first player with that
\* user_id, else to the first guest with that guest_id, else it is skipped
TeamDetails(slot, ids) ==
    IF ids = <<>> THEN <<>>
    ELSE LET player_id == Head(ids)
             pm == First({ i \in 1..Len(slot.players) :
                               slot.players[i].user_id = player_id })
             gm == First({ i \in 1..Len(slot.guests) :
                               slot.guests[i].guest_id = player_id })
             rest == TeamDetails(slot, Tail(ids))
         IN  IF pm # 0
             THEN <<[id |-> player_id, name |-> slot.players[pm].username,
                     type |-> "user"]>> \o rest
             ELSE IF gm # 0
             THEN <<[id |-> player_id, name |-> InviteSep \o slot.guests[gm].name,
                     type |-> "guest"]>> \o rest
             ELSE rest

\* SlotResponse with teamA=teamA_details, teamB=teamB_details
FullView(slot) ==
    [SlotView(slot) EXCEPT !.teamA = TeamDetails(slot, slot.teamA),
                           !.teamB = TeamDetails(slot, slot.teamB)]

Response(op, actor, target, status, detail, view) ==
    [op |-> op, actor |-> actor, target |-> target, status |-> status,
     detail |-> detail, view |-> view]

\* raise HTTPException(status_code=status, detail=detail)
Failure(op, actor, target, status, detail) ==
    Response(op, actor, target, status, detail, NoView)

-----------------------------------------------------------------------------
(* Slot handlers.  Each takes the collections and the clock as it finds    *)
(* them and yields the Slots collection it leaves and its response.        *)

Outcome(ss, r) == [slots |-> ss, resp |-> r]

\* register_player's check with the capacity test off by one (> for >=)
RegisterPlayerCheck_OffByOne(slot, user) ==
    IF TotalRegistered(slot) > MAX_PLAYERS THEN "full"
    ELSE IF UidStr(user.id) \in { p.user_id : p \in Range(slot.players) }
         THEN "already_registered"
         ELSE "ok"

\* register_player's check without the test for a user who is already in
RegisterPlayerCheck_NoDuplicateTest(slot, user) ==
    IF TotalRegistered(slot) >= MAX_PLAYERS THEN "full" ELSE "ok"

\* register_guest's check without the test for a guest name already in
RegisterGuestCheck_NoNameTest(slot, guestName) ==
    IF TotalRegistered(slot) >= MAX_PLAYERS THEN "full" ELSE "ok"

\* the capacity check and the duplicate check of register_player, in order
RegisterPlayerCheck(slot, user) ==
    IF TotalRegistered(slot) >= MAX_PLAYERS THEN "full"
    ELSE IF UidStr(user.id) \in { p.user_id : p \in Range(slot.players) }
         THEN "already_registered"
         ELSE "ok"

\* register_guest's check with the capacity test off by one (> for >=)
RegisterGuestCheck_OffByOne(slot, guestName) ==
    IF TotalRegistered(slot) > MAX_PLAYERS THEN "full"
    ELSE IF guestName \in { g.name : g \in Range(slot.guests) }
         THEN "guest_exists"
         ELSE "ok"

\* the capacity check and the guest-name check of register_guest, in order
RegisterGuestCheck(slot, guestName) ==
    IF TotalRegistered(slot) >= MAX_PLAYERS THEN "full"
    ELSE IF guestName \in { g.name : g \in Range(slot.guests) }
         THEN "guest_exists"
         ELSE "ok"

\* find_one({"date": d}), and insert_one of an empty slot when there is none
EnsureSlot(ss, d) == IF FindSlotIdx(ss, d) = 0 THEN Append(ss, NewSlot(d)) ELSE ss

\* register_player looking the user up before it tests the window
register_player_UserFirst(ss, us, t, username) ==
    LET F(status, detail) == Failure("register", username, <<>>, status, detail)
    IN
    IF FindUserIdx(us, username) = 0 THEN Outcome(ss, F(403, "auth_required"))
    ELSE IF ~is_registration_open(t) THEN Outcome(ss, F(403, "closed"))
    ELSE
      LET user == us[FindUserIdx(us, username)]
          target_date == get_next_wednesday_at_19(t)
          ss1 == EnsureSlot(ss, target_date)
          slot == ss1[FindSlotIdx(ss1, target_date)]
          check == RegisterPlayerCheck(slot, user)
      IN  IF check # "ok" THEN Outcome(ss1, F(400, check))
          ELSE LET ss2 == PushPlayer(ss1, target_date, PlayerEntry(user, t))
                   updated_slot == ss2[FindSlotIdx(ss2, target_date)]
               IN  Outcome(ss2, Response("register", username, <<>>, 200, "ok",
                                         SlotView(updated_slot)))

register_player(ss, us, t, username) ==
    LET F(status, detail) == Failure("register", username, <<>>, status, detail)
    IN
    IF ~is_registration_open(t) THEN Outcome(ss, F(403, "closed"))
    ELSE IF FindUserIdx(us, username) = 0 THEN Outcome(ss, F(403, "auth_required"))
    ELSE
      LET user == us[FindUserIdx(us, username)]
          target_date == get_next_wednesday_at_19(t)
          ss1 == EnsureSlot(ss, target_date)
          slot == ss1[FindSlotIdx(ss1, target_date)]
          check == RegisterPlayerCheck(slot, user)
      IN  IF check # "ok" THEN Outcome(ss1, F(400, check))
          ELSE LET ss2 == PushPlayer(ss1, target_date, PlayerEntry(user, t))
                   updated_slot == ss2[FindSlotIdx(ss2, target_date)]
               IN  Outcome(ss2, Response("register", username, <<>>, 200, "ok",
                                         SlotView(updated_slot)))

\* register_guest looking the user up only after the slot was created
register_guest_SlotFirst(ss, us, t, guestName, username) ==
    LET F(status, detail) == Failure("register_guest", username, guestName, status, detail)
        target_date == get_next_wednesday_at_19(t)
        ss1 == EnsureSlot(ss, target_date)
    IN
    IF ~is_registration_open(t) THEN Outcome(ss, F(403, "closed"))
    ELSE IF FindUserIdx(us, username) = 0 THEN Outcome(ss1, F(403, "auth_required"))
    ELSE
      LET user == us[FindUserIdx(us, username)]
          slot == ss1[FindSlotIdx(ss1, target_date)]
          check == RegisterGuestCheck(slot, guestName)
      IN  IF check # "ok" THEN Outcome(ss1, F(400, check))
          ELSE LET ss2 == PushGuest(ss1, target_date, GuestEntry(guestName, user, t))
                   updated_slot == ss2[FindSlotIdx(ss2, target_date)]
               IN  Outcome(ss2, Response("register_guest", username, guestName, 200,
                                         "ok", SlotView(updated_slot)))

register_guest(ss, us, t, guestName, username) ==
    LET F(status, detail) == Failure("register_guest", username, guestName, status, detail)
    IN
    IF ~is_registration_open(t) THEN Outcome(ss, F(403, "closed"))
    ELSE IF FindUserIdx(us, username) = 0 THEN Outcome(ss, F(403, "auth_required"))
    ELSE
      LET user == us[FindUserIdx(us, username)]
          target_date == get_next_wednesday_at_19(t)
          ss1 == EnsureSlot(ss, target_date)
          slot == ss1[FindSlotIdx(ss1, target_date)]
          check == RegisterGuestCheck(slot, guestName)
      IN  IF check # "ok" THEN Outcome(ss1, F(400, check))
          ELSE LET ss2 == PushGuest(ss1, target_date, GuestEntry(guestName, user, t))
                   updated_slot == ss2[FindSlotIdx(ss2, target_date)]
               IN  Outcome(ss2, Response("register_guest", username, guestName, 200,
                                         "ok", SlotView(updated_slot)))

\* player_name.split("(Invité) ")[1].split(" [par ")[0]: the one-element
\* sequence holding the guest name, or the empty sequence on IndexError
ParseGuestName(player_name) ==
    LET parts == Split(player_name, InviteSep)
    IN  IF Len(parts) < 2 THEN <<>>
        ELSE <<Split(parts[2], ParSep)[1]>>

unregister_player(ss, us, t, player_name, username) ==
    LET F(status, detail) == Failure("unregister", username, player_name, status, detail)
        \* this SlotResponse is built without the scores: they default to None
        Ok(ss2, d) == Outcome(ss2, Response("unregister", username, player_name, 200, "ok",
                                            [SlotView(ss2[FindSlotIdx(ss2, d)]) EXCEPT
                                                !.teamAScore = None, !.teamBScore = None]))
    IN
    IF FindUserIdx(us, username) = 0 THEN Outcome(ss, F(403, "auth_required"))
    ELSE
      LET user == us[FindUserIdx(us, username)]
          target_date == get_next_wednesday_at_19(t)
      IN
      IF FindSlotIdx(ss, target_date) = 0 THEN Outcome(ss, F(404, "slot_not_found"))
      ELSE
        LET slot == ss[FindSlotIdx(ss, target_date)]
            is_admin == user.role = "admin"
            pi == First({ i \in 1..Len(slot.players) :
                              slot.players[i].username = player_name })
        IN
        IF pi # 0
        THEN IF is_admin \/ slot.players[pi].user_id = UidStr(user.id)
             THEN Ok(PullPlayers(ss, target_date, player_name), target_date)
             ELSE Outcome(ss, F(403, "forbidden"))
        ELSE IF ~StartsWith(player_name, InvitePrefix)
             THEN Outcome(ss, F(404, "player_not_found"))
        ELSE IF ParseGuestName(player_name) = <<>>
             THEN Outcome(ss, F(404, "bad_guest_format"))
        ELSE
          LET guest_name == ParseGuestName(player_name)[1]
              gi == First({ i \in 1..Len(slot.guests) :
                                slot.guests[i].name = guest_name })
          IN  IF gi = 0 THEN Outcome(ss, F(404, "player_not_found"))
              ELSE IF is_admin \/ slot.guests[gi].invitedBy_id = UidStr(user.id)
                   THEN Ok(PullGuests(ss, target_date, guest_name), target_date)
                   ELSE Outcome(ss, F(403, "forbidden"))

\* GET /api/current-slot, called without test_registration_open: the view
\* carries isRegistrationOpen = is_registration_open()
get_current_slot(ss, t) ==
    LET target_date == get_next_wednesday_at_19(t)
        ss1 == EnsureSlot(ss, target_date)
    IN  Outcome(ss1, Response("current_slot", <<>>, <<>>, 200, "ok",
                              FullView(ss1[FindSlotIdx(ss1, target_date)])
                              @@ [isRegistrationOpen |-> is_registration_open(t)]))

\* update_one({"date": d}, {"$set": {"teamA": teamA, "teamB": teamB}})
SetTeamFields(ss, d, teamA, teamB) ==
    LET i == FindSlotIdx(ss, d)
    IN  IF i = 0 THEN ss
        ELSE [ss EXCEPT ![i].teamA = teamA, ![i].teamB = teamB]

\* update_one({"date": d}, {"$set": {"teamAScore": a, "teamBScore": b}})
SetScoreFields(ss, d, a, b) ==
    LET i == FindSlotIdx(ss, d)
    IN  IF i = 0 THEN ss
        ELSE [ss EXCEPT ![i].teamAScore = Some(a), ![i].teamBScore = Some(b)]

\* set_team_composition without the test that the ten ids are distinct
set_team_composition_NoOverlapTest(ss, us, t, teamA, teamB, admin_username) ==
    LET F(status, detail) ==
            Outcome(ss, Failure("set_teams", admin_username, <<teamA, teamB>>, status, detail))
        target_date == get_next_wednesday_at_19(t)
    IN
    IF FindAdminIdx(us, admin_username) = 0 THEN F(403, "admin_required")
    ELSE IF Len(teamA) # 5 THEN F(400, "teamA_size")
    ELSE IF Len(teamB) # 5 THEN F(400, "teamB_size")
    ELSE IF FindSlotIdx(ss, target_date) = 0 THEN F(404, "slot_not_found")
    ELSE
      LET slot == ss[FindSlotIdx(ss, target_date)]
          all_registered_ids == PlayerIds(slot) \o GuestIds(slot)
      IN  IF \E i \in 1..Len(teamA \o teamB) :
                 (teamA \o teamB)[i] \notin Range(all_registered_ids)
          THEN F(400, "unknown_id")
          ELSE LET ss2 == SetTeamFields(ss, target_date, teamA, teamB)
               IN  Outcome(ss2, Response("set_teams", admin_username, <<teamA, teamB>>,
                                         200, "ok",
                                         FullView(ss2[FindSlotIdx(ss2, target_date)])))

\* POST /api/admin/set-teams; the request body is <<teamA, teamB>>
set_team_composition(ss, us, t, teamA, teamB, admin_username) ==
    LET F(status, detail) ==
            Outcome(ss, Failure("set_teams", admin_username, <<teamA, teamB>>, status, detail))
        target_date == get_next_wednesday_at_19(t)
    IN
    IF FindAdminIdx(us, admin_username) = 0 THEN F(403, "admin_required")
    ELSE IF Len(teamA) # 5 THEN F(400, "teamA_size")
    ELSE IF Len(teamB) # 5 THEN F(400, "teamB_size")
    ELSE IF Cardinality(Range(teamA \o teamB)) # 10 THEN F(400, "overlap")
    ELSE IF FindSlotIdx(ss, target_date) = 0 THEN F(404, "slot_not_found")
    ELSE
      LET slot == ss[FindSlotIdx(ss, target_date)]
          all_registered_ids == PlayerIds(slot) \o GuestIds(slot)
      IN  IF \E i \in 1..Len(teamA \o teamB) :
                 (teamA \o teamB)[i] \notin Range(all_registered_ids)
          THEN F(400, "unknown_id")
          ELSE LET ss2 == SetTeamFields(ss, target_date, teamA, teamB)
               IN  Outcome(ss2, Response("set_teams", admin_username, <<teamA, teamB>>,
                                         200, "ok",
                                         FullView(ss2[FindSlotIdx(ss2, target_date)])))

\* GET /api/admin/slot-details: the occupants with their ids, and the teams
DetailsView(slot) ==
    [has |-> FALSE, date |-> slot.date,
     players |->
         [i \in 1..Len(slot.players) |->
             [id |-> slot.players[i].user_id, name |-> slot.players[i].username,
              type |-> "user"]]
         \o [i \in 1..Len(slot.guests) |->
             [id |-> slot.guests[i].guest_id, name |-> GuestDisplay(slot.guests[i]),
              type |-> "guest"]],
     teamA |-> TeamDetails(slot, slot.teamA), teamB |-> TeamDetails(slot, slot.teamB),
     teamAScore |-> slot.teamAScore, teamBScore |-> slot.teamBScore]

get_slot_details_for_admin(ss, us, t, admin_username) ==
    LET F(status, detail) ==
            Outcome(ss, Failure("slot_details", admin_username, <<>>, status, detail))
        target_date == get_next_wednesday_at_19(t)
    IN
    IF FindAdminIdx(us, admin_username) = 0 THEN F(403, "admin_required")
    ELSE IF FindSlotIdx(ss, target_date) = 0 THEN F(404, "slot_not_found")
    ELSE Outcome(ss, Response("slot_details", admin_username, <<>>, 200, "ok",
                              DetailsView(ss[FindSlotIdx(ss, target_date)])))

\* POST /api/admin/set-scores; the request body is <<teamAScore, teamBScore>>
set_team_scores(ss, us, t, teamAScore, teamBScore, admin_username) ==
    LET F(status, detail) ==
            Outcome(ss, Failure("set_scores", admin_username, <<teamAScore, teamBScore>>,
                                status, detail))
        target_date == get_next_wednesday_at_19(t)
    IN
    IF FindAdminIdx(us, admin_username) = 0 THEN F(403, "admin_required")
    ELSE IF FindSlotIdx(ss, target_date) = 0 THEN F(404, "slot_not_found")
    ELSE LET ss2 == SetScoreFields(ss, target_date, teamAScore, teamBScore)
         IN  Outcome(ss2, Response("set_scores", admin_username,
                                   <<teamAScore, teamBScore>>, 200, "ok",
                                   FullView(ss2[FindSlotIdx(ss2, target_date)])))

-----------------------------------------------------------------------------
(* Identity handlers.  Each yields the Users and InvitationTokens          *)
(* collections it leaves, the next fresh ObjectId and its response.        *)

IdOutcome(us, inv, uid, r) == [users |-> us, invitations |-> inv, nextUid |-> uid, resp |-> r]

AsciiDigits == {"0", "1", "2", "3", "4", "5", "6", "7", "8", "9"}

\* the characters str.isdigit() accepts: the ASCII digits and the digits of
\* other scripts, of which "U+0663" (ARABIC-INDIC DIGIT THREE) is one
Digits == AsciiDigits \cup {"U+0663"}

\* pin.isdigit()
IsDigit(pin) == Len(pin) > 0 /\ \A i \in 1..Len(pin) : pin[i] \in Digits

\* ObjectId(user_id): the ids whose text is user_id (none: bson raises InvalidId)
ObjectId(user_id) == { n \in 1..(MaxUid + 1) : UidStr(n) = user_id }

\* invitations.find_one({"token": token})
FindTokenIdx(inv, token) == First({ i \in 1..Len(inv) : inv[i].token = token })

\* delete_one: the collection without its document at index i
RemoveAt(coll, i) == SubSeq(coll, 1, i - 1) \o SubSeq(coll, i + 1, Len(coll))

delete_user(us, inv, uid, user_id, admin_username) ==
    LET F(status, detail) ==
            IdOutcome(us, inv, uid, Failure("delete_user", admin_username, user_id, status, detail))
    IN
    IF FindAdminIdx(us, admin_username) = 0 THEN F(403, "access_denied")
    ELSE IF ObjectId(user_id) = {} THEN F(500, "invalid_id")
    ELSE LET oid == CHOOSE n \in ObjectId(user_id) : TRUE
             i == First({ k \in 1..Len(us) : us[k].id = oid })
         IN  IF i = 0 THEN F(404, "user_not_found")
             ELSE IdOutcome(RemoveAt(us, i), inv, uid,
                            Response("delete_user", admin_username, user_id, 200, "ok", NoView))

signup(us, inv, uid, t, username, pin, inviteToken) ==
    LET F(status, detail) ==
            IdOutcome(us, inv, uid, Failure("signup", username, inviteToken, status, detail))
    IN
    IF Len(pin) # 4 \/ ~IsDigit(pin) THEN F(400, "bad_pin")
    ELSE IF FindUserIdx(us, username) # 0 THEN F(400, "username_taken")
    ELSE IF FindTokenIdx(inv, inviteToken) = 0 THEN F(400, "invalid_token")
    ELSE
      LET token_doc == inv[FindTokenIdx(inv, inviteToken)]
      IN
      IF t > token_doc.expiresAt THEN F(400, "token_expired")
      ELSE
        LET ai == FindUserIdx(us, token_doc.createdBy)
            new_user == [id |-> uid, username |-> username, pin |-> pin, role |-> "user",
                         invitedBy |-> IF ai # 0 THEN Some(UidStr(us[ai].id)) ELSE None]
        IN  IdOutcome(Append(us, new_user),
                      RemoveAt(inv, FindTokenIdx(inv, inviteToken)),
                      uid + 1,
                      Response("signup", username, inviteToken, 200, "ok", NoView))

\* POST /api/auth/login: always answered 200, with success true or false
login(us, inv, uid, username, pin) ==
    LET i == First({ k \in 1..Len(us) : us[k].username = username /\ us[k].pin = pin })
    IN  IdOutcome(us, inv, uid,
                  Response("login", username, pin, 200,
                           IF i = 0 THEN "login_failed" ELSE "login_ok", NoView))

\* POST /api/auth/change-pin; update_one reports modified_count 0 when the
\* document already holds the value that is $set
change_pin(us, inv, uid, username, old_pin, new_pin) ==
    LET F(status, detail) ==
            IdOutcome(us, inv, uid,
                      Failure("change_pin", username, <<old_pin, new_pin>>, status, detail))
        i == First({ k \in 1..Len(us) : us[k].username = username /\ us[k].pin = old_pin })
    IN
    IF Len(new_pin) # 4 \/ ~IsDigit(new_pin) THEN F(400, "bad_pin")
    ELSE IF i = 0 THEN F(403, "wrong_pin")
    ELSE LET modified_count == IF us[i].pin = new_pin THEN 0 ELSE 1
         IN  IF modified_count = 0 THEN F(500, "update_failed")
             ELSE IdOutcome([us EXCEPT ![i].pin = new_pin], inv, uid,
                            Response("change_pin", username, <<old_pin, new_pin>>,
                                     200, "ok", NoView))

\* the user list of GET /api/admin/users: invitedBy resolved to a username
UserListView(us) ==
    [has |-> FALSE,
     users |-> [k \in 1..Len(us) |->
                   [id |-> UidStr(us[k].id), username |-> us[k].username,
                    role |-> us[k].role,
                    invitedBy |->
                        IF us[k].invitedBy = None THEN None
                        ELSE LET j == First({ n \in 1..Len(us) :
                                                  UidStr(us[n].id) = us[k].invitedBy[1] })
                             IN  IF j = 0 THEN None ELSE Some(us[j].username)]]]

get_all_users(us, inv, uid, admin_username) ==
    IF FindAdminIdx(us, admin_username) = 0
    THEN IdOutcome(us, inv, uid,
                   Failure("list_users", admin_username, <<>>, 403, "access_denied"))
    ELSE IdOutcome(us, inv, uid,
                   Response("list_users", admin_username, <<>>, 200, "ok", UserListView(us)))

\* POST /api/admin/users/{user_id}/reset-pin
admin_reset_user_pin(us, inv, uid, user_id, admin_username) ==
    LET F(status, detail) ==
            IdOutcome(us, inv, uid, Failure("reset_pin", admin_username, user_id, status, detail))
    IN
    IF FindAdminIdx(us, admin_username) = 0 THEN F(403, "access_denied")
    ELSE IF ObjectId(user_id) = {} THEN F(500, "invalid_id")
    ELSE LET oid == CHOOSE n \in ObjectId(user_id) : TRUE
             i == First({ k \in 1..Len(us) : us[k].id = oid })
             modified_count == IF i = 0 \/ us[i].pin = <<"0", "0", "0", "0">> THEN 0 ELSE 1
         IN  IF modified_count = 0 THEN F(404, "user_not_found")
             ELSE IdOutcome([us EXCEPT ![i].pin = <<"0", "0", "0", "0">>], inv, uid,
                            Response("reset_pin", admin_username, user_id, 200, "ok", NoView))

\* token is the 6-digit string random.randint produced
generate_invite_token(us, inv, uid, t, admin_username, token) ==
    IF FindAdminIdx(us, admin_username) = 0
    THEN IdOutcome(us, inv, uid,
                   Failure("generate_invite", admin_username, <<>>, 403, "access_denied"))
    ELSE IdOutcome(us,
                   Append(inv, [token |-> token, createdBy |-> admin_username,
                                expiresAt |-> t + 24 * 3600]),
                   uid,
                   Response("generate_invite", admin_username, token, 200, "ok", NoView))

-----------------------------------------------------------------------------
(* The state the model starts from                                         *)

Admin == Str("admin")
Alice == Str("alice")
Bob == Str("bob")

Pin(a, b, c, d) == <<a, b, c, d>>

AdminUser == [id |-> 1, username |-> Admin, pin |-> Pin("0", "0", "0", "0"),
              role |-> "admin", invitedBy |-> None]

\* an admin and two users the admin invited
InitUsers ==
    << AdminUser,
       [id |-> 2, username |-> Alice, pin |-> Pin("1", "1", "1", "1"),
        role |-> "user", invitedBy |-> Some(UidStr(1))],
       [id |-> 3, username |-> Bob, pin |-> Pin("2", "2", "2", "2"),
        role |-> "user", invitedBy |-> Some(UidStr(1))] >>

\* Monday 10:00 of week 1: the registration window is closed
MondayMorning == At(1, 0, 10, 0, 0)
\* Tuesday 10:00 of week 1: the registration window is open
TuesdayMorning == At(1, 1, 10, 0, 0)
\* Wednesday 19:30 of week 0: the window is open and the slot is next week's
LastWednesdayEvening == At(0, 2, 19, 30, 0)

SeedName(i) == <<"seed", ToString(i)>>

\* the slot of week 1 after the admin registered SeedGuests guests for it
SeededSlot ==
    [NewSlot(get_next_wednesday_at_19(LastWednesdayEvening)) EXCEPT
        !.guests = [i \in 1..SeedGuests |->
                       GuestEntry(SeedName(i), AdminUser, LastWednesdayEvening)]]

\* a request's position and locals; pin, inviteToken, token_doc and admin
\* are the locals of a signup
IdleProc == [pc |-> "idle", op |-> "", username |-> <<>>, guestName |-> <<>>,
             user |-> AdminUser, date |-> 0, slot |-> NewSlot(0),
             pin |-> <<>>, inviteToken |-> <<>>, token_doc |-> None, admin |-> None]

Procs == {1, 2}

NoResponse == Failure("", <<>>, <<>>, 0, "")

InitCommon ==
    /\ users = InitUsers
    /\ nextUid = 4
    /\ invitations = <<>>
    /\ resp = NoResponse
    /\ procs = [p \in Procs |-> IdleProc]

Init ==
    /\ InitCommon
    /\ now = MondayMorning
    /\ slots = <<SeededSlot>>

-----------------------------------------------------------------------------
(* Requests served one at a time                                           *)

Usernames == {Alice, Bob}
Actors == {Admin, Alice, Bob}
GuestNames == { Str("G1"), <<"G1", " ", "[par", " ", "x">> }
Tokens == { Str("111111") }
Pins == { Pin("1", "2", "3", "4"), <<"1", "2">> }

\* what a client may pass to unregister: a username or a guest's display string
Targets ==
    Usernames \cup
    { GuestDisplay([name |-> n, invitedBy |-> u]) : n \in GuestNames, u \in Usernames }

SlotStep(out) ==
    /\ slots' = out.slots
    /\ resp' = out.resp
    /\ UNCHANGED <<now, users, nextUid, invitations, procs>>

IdStep(out) ==
    /\ users' = out.users
    /\ invitations' = out.invitations
    /\ nextUid' = out.nextUid
    /\ resp' = out.resp
    /\ UNCHANGED <<now, slots, procs>>

RegisterPlayer == \E u \in Usernames : SlotStep(register_player(slots, users, now, u))

RegisterGuest ==
    \E u \in Usernames, g \in GuestNames :
        SlotStep(register_guest(slots, users, now, g, u))

Unregister ==
    \E a \in Actors, n \in Targets :
        SlotStep(unregister_player(slots, users, now, n, a))

GetCurrentSlot == SlotStep(get_current_slot(slots, now))

\* the admin deletes alice's account, the first one or one created later
DeleteUser ==
    \E n \in (2..MaxUid) \ {3} :
        IdStep(delete_user(users, invitations, nextUid, UidStr(n), Admin))

Signup ==
    /\ nextUid <= MaxUid
    /\ \E u \in Usernames, pin \in Pins, tok \in Tokens :
           IdStep(signup(users, invitations, nextUid, now, u, pin, tok))

GenerateInvite ==
    /\ Len(invitations) < MaxInvites
    /\ \E tok \in Tokens :
           IdStep(generate_invite_token(users, invitations, nextUid, now, Admin, tok))

\* the clock moves on to Tuesday morning
Tick ==
    /\ now < TuesdayMorning
    /\ now' = TuesdayMorning
    /\ UNCHANGED <<users, nextUid, invitations, slots, resp, procs>>

Next ==
    \/ RegisterPlayer
    \/ RegisterGuest
    \/ Unregister
    \/ GetCurrentSlot
    \/ DeleteUser
    \/ Signup
    \/ GenerateInvite
    \/ Tick

Spec == Init /\ [][Next]_vars

-----------------------------------------------------------------------------
(* The admin's work on the slot, among registrations served one at a time  *)

\* who may call an admin endpoint: the admin, a plain user, nobody known
Mallory == Str("mallory")
AdminCallers == {Admin, Alice, Mallory}

\* ids that belong to no occupant
Strangers == [i \in 1..10 |-> <<"stranger", ToString(i)>>]

\* the request bodies of set-teams that are tried: splits of the ids the
\* slot details list (padded with strangers when the slot holds fewer than
\* 10), swapped, overlapping, too short, and with an id nobody bears
TeamBodies(ss, t) ==
    LET d == get_next_wednesday_at_19(t)
        ids == IF FindSlotIdx(ss, d) = 0 THEN <<>>
               ELSE PlayerIds(ss[FindSlotIdx(ss, d)]) \o GuestIds(ss[FindSlotIdx(ss, d)])
        pool == ids \o Strangers
    IN  { <<SubSeq(pool, 1, 5), SubSeq(pool, 6, 10)>>,
          <<SubSeq(pool, 6, 10), SubSeq(pool, 1, 5)>>,
          <<SubSeq(pool, 1, 5), SubSeq(pool, 5, 9)>>,
          <<SubSeq(pool, 1, 4), SubSeq(pool, 6, 10)>>,
          <<SubSeq(pool, 1, 5), SubSeq(pool, 6, 9)>>,
          <<SubSeq(pool, 1, 5), SubSeq(pool, 6, 9) \o <<Strangers[1]>> >> }

\* TeamScores: integers >= 0
ScoreValues == {0, 3}

\* the callers tried while teams are made: the admin and a plain user
TeamCallers == {Admin, Alice}

SetTeamsBy(callers) ==
    \E a \in callers, body \in TeamBodies(slots, now) :
        SlotStep(set_team_composition(slots, users, now, body[1], body[2], a))

SetScoresBy(callers) ==
    \E a \in callers, x \in ScoreValues, y \in ScoreValues :
        SlotStep(set_team_scores(slots, users, now, x, y, a))

SlotDetailsBy(callers) ==
    \E a \in callers : SlotStep(get_slot_details_for_admin(slots, users, now, a))

SetTeams == SetTeamsBy(TeamCallers)
SlotDetails == SlotDetailsBy(TeamCallers)

InitTeams ==
    /\ InitCommon
    /\ now = TuesdayMorning
    /\ slots \in { <<>>, <<SeededSlot>> }

NextTeams ==
    \/ RegisterPlayer
    \/ RegisterGuest
    \/ Unregister
    \/ GetCurrentSlot
    \/ SetTeams
    \/ SlotDetails

SpecTeams == InitTeams /\ [][NextTeams]_vars

-----------------------------------------------------------------------------
(* Invitations and signups served one at a time, over two days             *)

Carol == Str("carol")
Dave == Str("dave")

\* the usernames a signup may ask for: one that is taken and two new ones
SignupNames == {Alice, Carol, Dave}

\* the tokens random.randint may produce
IdTokens == { Str("111111"), Str("222222") }

\* pins a signup may carry: four ASCII digits, too few digits, and four
\* characters of which one is a digit of another script
SignupPins == { Pin("1", "2", "3", "4"), <<"1", "2">>, Pin("1", "2", "U+0663", "4") }

\* the instants at which requests arrive: Tuesday 10:00, 24 hours later to
\* the second, and one second after that
IdInstants == { TuesdayMorning, TuesdayMorning + 24 * 3600, TuesdayMorning + 24 * 3600 + 1 }

IdGenerate ==
    /\ Len(invitations) <= MaxInvites
    /\ \E tok \in IdTokens :
           IdStep(generate_invite_token(users, invitations, nextUid, now, Admin, tok))

IdSignup ==
    /\ nextUid <= MaxUid + 1
    /\ \E u \in SignupNames, pin \in SignupPins, tok \in IdTokens :
           IdStep(signup(users, invitations, nextUid, now, u, pin, tok))

\* the clock moves on to a later instant
IdTick ==
    /\ \E t \in IdInstants : t > now /\ now' = t
    /\ UNCHANGED <<users, nextUid, invitations, slots, resp, procs>>

InitId ==
    /\ InitCommon
    /\ now = TuesdayMorning
    /\ slots = <<>>

NextId ==
    \/ IdGenerate
    \/ IdSignup
    \/ IdTick

SpecId == InitId /\ [][NextId]_vars

-----------------------------------------------------------------------------
(* The admin endpoints, called by the admin and by others                  *)

\* the slot of week 1 after alice and bob registered and alice brought a
\* guest on Tuesday morning: it holds 10
FilledSlots ==
    LET s1 == register_player(<<SeededSlot>>, InitUsers, TuesdayMorning, Alice).slots
        s2 == register_player(s1, InitUsers, TuesdayMorning, Bob).slots
    IN  register_guest(s2, InitUsers, TuesdayMorning, Str("G1"), Alice).slots

\* the user_id path parameters tried: alice's id, bob's id, the id of no
\* user, and a text that is no ObjectId
UserIdInputs == { UidStr(2), UidStr(3), UidStr(MaxUid + 1), Str("xyz") }

ListUsers ==
    \E a \in AdminCallers : IdStep(get_all_users(users, invitations, nextUid, a))

AdminDeleteUser ==
    \E a \in AdminCallers, id \in UserIdInputs :
        IdStep(delete_user(users, invitations, nextUid, id, a))

AdminResetPin ==
    \E a \in AdminCallers, id \in UserIdInputs :
        IdStep(admin_reset_user_pin(users, invitations, nextUid, id, a))

AdminGenerateInvite ==
    /\ Len(invitations) < MaxInvites
    /\ \E a \in AdminCallers, tok \in Tokens :
           IdStep(generate_invite_token(users, invitations, nextUid, now, a, tok))

AdminSetTeams == SetTeamsBy(AdminCallers)
AdminSetScores == SetScoresBy(AdminCallers)
AdminSlotDetails == SlotDetailsBy(AdminCallers)

InitAdmin ==
    /\ InitCommon
    /\ now = TuesdayMorning
    /\ slots \in { <<>>, FilledSlots }

NextAdmin ==
    \/ ListUsers
    \/ AdminDeleteUser
    \/ AdminResetPin
    \/ AdminGenerateInvite
    \/ AdminSetTeams
    \/ AdminSetScores
    \/ AdminSlotDetails

SpecAdmin == InitAdmin /\ [][NextAdmin]_vars

-----------------------------------------------------------------------------
(* The current slot looked up at instants all over a week                  *)

\* every weekday of week 1, at hours around the ends of the registration
\* window and around the match hour, on the hour, one second after it, a
\* minute before the next and a second before the next
WeekInstants ==
    { At(1, wd, h, ms[1], ms[2]) :
          wd \in 0..6, h \in {0, 11, 12, 18, 19, 20, 23},
          ms \in { <<0, 0>>, <<0, 1>>, <<59, 0>>, <<59, 59>> } }

\* the clock moves on to a later instant of the week
ClockJump ==
    /\ \E t \in WeekInstants : t > now /\ now' = t
    /\ UNCHANGED <<users, nextUid, invitations, slots, resp, procs>>

InitTime ==
    /\ InitCommon
    /\ now \in WeekInstants
    /\ slots = <<>>

NextTime ==
    \/ GetCurrentSlot
    \/ ClockJump

SpecTime == InitTime /\ [][NextTime]_vars

-----------------------------------------------------------------------------
(* Logins and PIN changes served one at a time                             *)

\* the usernames a login or a PIN change may name
PinUsers == {Alice, Bob, Mallory}

\* the pins a client may send: alice's and bob's first pins, another
\* well-formed one, one that is too short and one with a non-ASCII digit
PinInputs ==
    { Pin("1", "1", "1", "1"), Pin("2", "2", "2", "2"), Pin("1", "2", "3", "4"),
      <<"1", "2">>, Pin("1", "2", "U+0663", "4") }

Login ==
    \E u \in PinUsers, pin \in PinInputs :
        IdStep(login(users, invitations, nextUid, u, pin))

ChangePin ==
    \E u \in PinUsers, old_pin \in PinInputs, new_pin \in PinInputs :
        IdStep(change_pin(users, invitations, nextUid, u, old_pin, new_pin))

InitPin ==
    /\ InitCommon
    /\ now = TuesdayMorning
    /\ slots = <<>>

NextPin ==
    \/ Login
    \/ ChangePin

SpecPin == InitPin /\ [][NextPin]_vars

-----------------------------------------------------------------------------
(* Concurrent registration requests.  A request is suspended at each       *)
(* database round trip (await), and the steps of other requests may run    *)
(* in between; what it read before stays in its locals.                    *)

ConcGuestNames == { Str("G1") }

\* is_registration_open() and users.find_one({"username": username})
StartRequest(p, op, u, g) ==
    /\ procs[p].pc = "idle"
    /\ UNCHANGED <<now, users, nextUid, invitations, slots>>
    /\ IF ~is_registration_open(now)
       THEN resp' = Failure(op, u, g, 403, "closed") /\ procs' = procs
       ELSE IF FindUserIdx(users, u) = 0
       THEN resp' = Failure(op, u, g, 403, "auth_required") /\ procs' = procs
       ELSE /\ resp' = resp
            /\ procs' = [procs EXCEPT ![p] =
                  [IdleProc EXCEPT !.pc = "find_slot", !.op = op, !.username = u,
                                   !.guestName = g,
                                   !.user = users[FindUserIdx(users, u)]]]

StartRegisterPlayer(p) == \E u \in Usernames : StartRequest(p, "register", u, <<>>)

StartRegisterGuest(p) ==
    \E u \in Usernames, g \in ConcGuestNames : StartRequest(p, "register_guest", u, g)

\* target_date = get_next_wednesday_at_19(); slot = find_one({"date": target_date})
FindSlotStep(p) ==
    /\ procs[p].pc = "find_slot"
    /\ UNCHANGED <<now, users, nextUid, invitations, slots, resp>>
    /\ LET d == get_next_wednesday_at_19(now)
           i == FindSlotIdx(slots, d)
       IN  procs' = [procs EXCEPT ![p] =
               IF i = 0 THEN [@ EXCEPT !.pc = "insert_slot", !.date = d]
               ELSE [@ EXCEPT !.pc = "push", !.date = d, !.slot = slots[i]]]

\* insert_one of the empty slot this request built
InsertSlotStep(p) ==
    /\ procs[p].pc = "insert_slot"
    /\ UNCHANGED <<now, users, nextUid, invitations, resp>>
    /\ slots' = Append(slots, NewSlot(procs[p].date))
    /\ procs' = [procs EXCEPT ![p] =
           [@ EXCEPT !.pc = "push", !.slot = NewSlot(procs[p].date)]]

\* the checks on the slot as this request read it, then update_one($push)
PushStep(p) ==
    /\ procs[p].pc = "push"
    /\ UNCHANGED <<now, users, nextUid, invitations>>
    /\ LET me == procs[p]
           check == IF me.op = "register"
                    THEN RegisterPlayerCheck(me.slot, me.user)
                    ELSE RegisterGuestCheck(me.slot, me.guestName)
       IN  IF check # "ok"
           THEN /\ resp' = Failure(me.op, me.username, me.guestName, 400, check)
                /\ procs' = [procs EXCEPT ![p] = IdleProc]
                /\ slots' = slots
           ELSE /\ resp' = resp
                /\ procs' = [procs EXCEPT ![p].pc = "reread"]
                /\ slots' = IF me.op = "register"
                            THEN PushPlayer(slots, me.date, PlayerEntry(me.user, now))
                            ELSE PushGuest(slots, me.date,
                                           GuestEntry(me.guestName, me.user, now))

\* updated_slot = find_one({"date": target_date}) and the response
RereadStep(p) ==
    /\ procs[p].pc = "reread"
    /\ UNCHANGED <<now, users, nextUid, invitations, slots>>
    /\ resp' = Response(procs[p].op, procs[p].username, procs[p].guestName, 200, "ok",
                        SlotView(slots[FindSlotIdx(slots, procs[p].date)]))
    /\ procs' = [procs EXCEPT ![p] = IdleProc]

InitConc ==
    /\ InitCommon
    /\ now = TuesdayMorning
    /\ slots \in { <<>>, <<SeededSlot>> }

NextConc ==
    \E p \in Procs :
        \/ StartRegisterPlayer(p)
        \/ StartRegisterGuest(p)
        \/ FindSlotStep(p)
        \/ InsertSlotStep(p)
        \/ PushStep(p)
        \/ RereadStep(p)

SpecConc == InitConc /\ [][NextConc]_vars

-----------------------------------------------------------------------------
(* Concurrent signup requests, suspended at each database round trip       *)

\* the two invitations the admin issued on Tuesday morning
IssuedInvitations ==
    << [token |-> Str("111111"), createdBy |-> Admin,
        expiresAt |-> TuesdayMorning + 24 * 3600],
       [token |-> Str("222222"), createdBy |-> Admin,
        expiresAt |-> TuesdayMorning + 24 * 3600] >>

ConcSignupNames == {Carol, Dave}

\* the pin format test and users.find_one({"username": username})
StartSignup(p) ==
    /\ procs[p].pc = "idle"
    /\ UNCHANGED <<now, users, nextUid, invitations, slots>>
    /\ \E u \in ConcSignupNames, pin \in SignupPins, tok \in IdTokens :
           IF Len(pin) # 4 \/ ~IsDigit(pin)
           THEN resp' = Failure("signup", u, tok, 400, "bad_pin") /\ procs' = procs
           ELSE IF FindUserIdx(users, u) # 0
           THEN resp' = Failure("signup", u, tok, 400, "username_taken") /\ procs' = procs
           ELSE /\ resp' = resp
                /\ procs' = [procs EXCEPT ![p] =
                      [IdleProc EXCEPT !.pc = "find_token", !.op = "signup",
                                       !.username = u, !.pin = pin, !.inviteToken = tok]]

\* invitations.find_one({"token": inviteToken}) and the expiry test
FindTokenStep(p) ==
    /\ procs[p].pc = "find_token"
    /\ UNCHANGED <<now, users, nextUid, invitations, slots>>
    /\ LET me == procs[p]
           i == FindTokenIdx(invitations, me.inviteToken)
       IN  IF i = 0
           THEN /\ resp' = Failure("signup", me.username, me.inviteToken, 400, "invalid_token")
                /\ procs' = [procs EXCEPT ![p] = IdleProc]
           ELSE IF now > invitations[i].expiresAt
           THEN /\ resp' = Failure("signup", me.username, me.inviteToken, 400, "token_expired")
                /\ procs' = [procs EXCEPT ![p] = IdleProc]
           ELSE /\ resp' = resp
                /\ procs' = [procs EXCEPT ![p] =
                      [@ EXCEPT !.pc = "find_inviter", !.token_doc = Some(invitations[i])]]

\* users.find_one({"username": token_doc["createdBy"]})
FindInviterStep(p) ==
    /\ procs[p].pc = "find_inviter"
    /\ UNCHANGED <<now, users, nextUid, invitations, slots, resp>>
    /\ LET ai == FindUserIdx(users, procs[p].token_doc[1].createdBy)
       IN  procs' = [procs EXCEPT ![p] =
               [@ EXCEPT !.pc = "insert_user",
                         !.admin = IF ai = 0 THEN None ELSE Some(users[ai])]]

\* users.insert_one(new_user)
InsertUserStep(p) ==
    /\ procs[p].pc = "insert_user"
    /\ UNCHANGED <<now, invitations, slots, resp>>
    /\ LET me == procs[p]
       IN  users' = Append(users,
                 [id |-> nextUid, username |-> me.username, pin |-> me.pin,
                  role |-> "user",
                  invitedBy |-> IF me.admin = None THEN None
                                ELSE Some(UidStr(me.admin[1].id))])
    /\ nextUid' = nextUid + 1
    /\ procs' = [procs EXCEPT ![p].pc = "delete_token"]

\* invitations.delete_one({"token": inviteToken}) and the response
DeleteTokenStep(p) ==
    /\ procs[p].pc = "delete_token"
    /\ UNCHANGED <<now, users, nextUid, slots>>
    /\ LET i == FindTokenIdx(invitations, procs[p].inviteToken)
       IN  invitations' = IF i = 0 THEN invitations ELSE RemoveAt(invitations, i)
    /\ resp' = Response("signup", procs[p].username, procs[p].inviteToken, 200, "ok", NoView)
    /\ procs' = [procs EXCEPT ![p] = IdleProc]

InitConcSignup ==
    /\ users = InitUsers
    /\ nextUid = 4
    /\ invitations = IssuedInvitations
    /\ resp = NoResponse
    /\ procs = [p \in Procs |-> IdleProc]
    /\ now = TuesdayMorning
    /\ slots = <<>>

NextConcSignup ==
    \E p \in Procs :
        \/ StartSignup(p)
        \/ FindTokenStep(p)
        \/ FindInviterStep(p)
        \/ InsertUserStep(p)
        \/ DeleteTokenStep(p)

SpecConcSignup == InitConcSignup /\ [][NextConcSignup]_vars

-----------------------------------------------------------------------------
(* Registrations around the edges of the registration window, from Monday  *)
(* morning of one week to Monday noon of the next                          *)

\* the instants a request may arrive at: either side of Monday 12:00:00,
\* of Wednesday 19:00:00 and of Wednesday 20:00:00, and the next Monday
WindowInstants ==
    { At(1, 0, 11, 59, 59), At(1, 0, 12, 0, 0), At(1, 2, 18, 59, 59),
      At(1, 2, 19, 0, 0), At(1, 2, 19, 0, 1), At(1, 2, 19, 59, 59),
      At(1, 2, 20, 0, 0), At(2, 0, 12, 0, 0) }

\* a user and a name no user has
WindowCallers == {Alice, Mallory}

WindowGuestNames == { Str("G1") }

WindowTargets ==
    WindowCallers \cup
    { GuestDisplay([name |-> n, invitedBy |-> Alice]) : n \in WindowGuestNames }

WindowRegisterPlayer ==
    \E u \in WindowCallers : SlotStep(register_player(slots, users, now, u))

WindowRegisterGuest ==
    \E u \in WindowCallers, g \in WindowGuestNames :
        SlotStep(register_guest(slots, users, now, g, u))

WindowUnregister ==
    \E a \in WindowCallers, n \in WindowTargets :
        SlotStep(unregister_player(slots, users, now, n, a))

\* the clock moves on to a later instant
WindowTick ==
    /\ \E t \in WindowInstants : t > now /\ now' = t
    /\ UNCHANGED <<users, nextUid, invitations, slots, resp, procs>>

InitWindow ==
    /\ InitCommon
    /\ now = At(1, 0, 11, 59, 59)
    /\ slots = <<>>

NextWindow ==
    \/ WindowRegisterPlayer
    \/ WindowRegisterGuest
    \/ WindowUnregister
    \/ GetCurrentSlot
    \/ WindowTick

SpecWindow == InitWindow /\ [][NextWindow]_vars

-----------------------------------------------------------------------------
(* The slot of the current week, as the handlers look it up                *)

CurrentDate == get_next_wednesday_at_19(now)
HasCurrentSlot == FindSlotIdx(slots, CurrentDate) # 0
CurrentSlot == slots[FindSlotIdx(slots, CurrentDate)]

\* the user document a username resolves to
HasUser(name) == FindUserIdx(users, name) # 0
UserOf(name) == users[FindUserIdx(users, name)]

\* s with its element at index i removed
Without(s, i) == SubSeq(s, 1, i - 1) \o SubSeq(s, i + 1, Len(s))

-----------------------------------------------------------------------------
(* C1: when requests are served one at a time, no slot ever holds more     *)
(* than 10 players and guests together, and every response that carries a  *)
(* player_count reports one between 0 and 10.                              *)
C1_CapacityRespected ==
    /\ \A i \in 1..Len(slots) : TotalRegistered(slots[i]) <= MAX_PLAYERS
    /\ resp.view.has => resp.view.player_count \in 0..MAX_PLAYERS

\* a registration was turned away from a slot that holds exactly 10
C1_Witness ==
    /\ resp.detail = "full"
    /\ HasCurrentSlot
    /\ TotalRegistered(CurrentSlot) = MAX_PLAYERS

-----------------------------------------------------------------------------
(* C2: under every interleaving of concurrent registration requests for    *)
(* the same slot, the slot never holds more than 10 occupants.             *)
C2_CapacityUnderConcurrency ==
    \A i \in 1..Len(slots) : Len(slots[i].players) + Len(slots[i].guests) <= MAX_PLAYERS

(* C3: in every reachable state, also under interleaved register_player    *)
(* requests of one user, no user_id occurs more than once in players.      *)
C3_NoDuplicateUserId ==
    \A k \in 1..Len(slots) :
        \A i, j \in 1..Len(slots[k].players) :
            slots[k].players[i].user_id = slots[k].players[j].user_id => i = j

-----------------------------------------------------------------------------
\* the user behind username u is in the players of the current slot
AlreadyPresent(u) ==
    /\ HasUser(u)
    /\ HasCurrentSlot
    /\ UidStr(UserOf(u).id) \in { p.user_id : p \in Range(CurrentSlot.players) }

(* C4 as stated: a register_player call by a user who is already in the    *)
(* slot's players, made while the window is open, fails with the           *)
(* duplicate-registration failure and leaves the slot unchanged, at every  *)
(* occupancy of the slot.                                                  *)
C4_DuplicateAlwaysReported ==
    [][ (resp'.op = "register" /\ is_registration_open(now) /\ AlreadyPresent(resp'.actor))
        => (resp'.status = 400 /\ resp'.detail = "already_registered" /\ slots' = slots) ]_vars

(* C4 amended: such a call always fails with status 400 and leaves the     *)
(* slot unchanged; the failure is the duplicate-registration one when the  *)
(* slot holds fewer than 10, and the slot-full one when it holds 10.       *)
C4_DuplicateRejected ==
    [][ (resp'.op = "register" /\ is_registration_open(now) /\ AlreadyPresent(resp'.actor))
        => /\ resp'.status = 400
           /\ slots' = slots
           /\ resp'.detail = IF TotalRegistered(CurrentSlot) >= MAX_PLAYERS
                             THEN "full" ELSE "already_registered" ]_vars

\* a user who is in the slot was told so on registering again
C4_Witness ==
    /\ resp.op = "register"
    /\ resp.detail = "already_registered"
    /\ AlreadyPresent(resp.actor)

-----------------------------------------------------------------------------
NoDuplicateGuestName(slot) ==
    \A i, j \in 1..Len(slot.guests) :
        slot.guests[i].name = slot.guests[j].name => i = j

(* C5: a register_guest call whose guest name equals the name of a guest   *)
(* already in the slot is rejected and leaves the slot unchanged, whoever  *)
(* the inviter is; so when requests are served one at a time no two guests *)
(* of a slot share a name.                                                 *)
C5_GuestNameUnique ==
    /\ [](\A i \in 1..Len(slots) : NoDuplicateGuestName(slots[i]))
    /\ [][ ( /\ resp'.op = "register_guest"
             /\ HasCurrentSlot
             /\ resp'.target \in { g.name : g \in Range(CurrentSlot.guests) } )
           => (resp'.status # 200 /\ slots' = slots) ]_vars

\* a guest name was refused because another inviter's guest bears it
C5_Witness ==
    /\ resp.op = "register_guest"
    /\ resp.detail = "guest_exists"
    /\ HasCurrentSlot
    /\ \E g \in Range(CurrentSlot.guests) :
           g.name = resp.target /\ g.invitedBy # resp.actor

-----------------------------------------------------------------------------
\* the slot for date d in the collection ss
SlotAt(ss, d) == ss[FindSlotIdx(ss, d)]

\* the entries of a slot that the display string n names
PlayersNamed(slot, n) == { p \in Range(slot.players) : p.username = n }
GuestsNamed(slot, n) == { g \in Range(slot.guests) : GuestDisplay(g) = n }

IsAdmin(name) == HasUser(name) /\ UserOf(name).role = "admin"
IsPlainUser(name) == HasUser(name) /\ UserOf(name).role # "admin"

(* C6: an unregister call by an existing non-admin actor that names an     *)
(* existing entry which is neither the actor's own player entry nor a      *)
(* guest the actor invited fails with status 403 and leaves the players    *)
(* and guests of the slot unchanged.                                       *)
C6_OthersEntryForbidden ==
    [][ ( /\ resp'.op = "unregister"
          /\ IsPlainUser(resp'.actor)
          /\ HasCurrentSlot
          /\ PlayersNamed(CurrentSlot, resp'.target) \cup GuestsNamed(CurrentSlot, resp'.target) # {}
          /\ \A p \in PlayersNamed(CurrentSlot, resp'.target) :
                 p.user_id # UidStr(UserOf(resp'.actor).id)
          /\ \A g \in GuestsNamed(CurrentSlot, resp'.target) :
                 g.invitedBy_id # UidStr(UserOf(resp'.actor).id) )
        => (resp'.status = 403 /\ slots' = slots) ]_vars

(* C7: an unregister call by an admin that passes an entry of the slot's   *)
(* combined display list succeeds and removes the entry.                   *)
C7_AdminRemovesAnyEntry ==
    [][ ( /\ resp'.op = "unregister"
          /\ IsAdmin(resp'.actor)
          /\ HasCurrentSlot
          /\ resp'.target \in Range(DisplayList(CurrentSlot)) )
        => ( /\ resp'.status = 200
             /\ resp'.target \notin Range(DisplayList(SlotAt(slots', CurrentDate))) ) ]_vars

(* C8: a non-admin user whose user_id is in players succeeds when          *)
(* unregistering their own username, and a non-admin user whose user_id is *)
(* the invitedBy_id of a guest succeeds when unregistering that guest's    *)
(* display string, also after users were deleted and signed up again.      *)
C8_OwnEntryRemovable ==
    [][ ( /\ resp'.op = "unregister"
          /\ IsPlainUser(resp'.actor)
          /\ HasCurrentSlot
          /\ \/ /\ resp'.target = resp'.actor
                /\ AlreadyPresent(resp'.actor)
             \/ \E g \in GuestsNamed(CurrentSlot, resp'.target) :
                    g.invitedBy_id = UidStr(UserOf(resp'.actor).id) )
        => resp'.status = 200 ]_vars

(* C9: a successful unregister removes exactly one entry: the occupant     *)
(* count drops by exactly 1 and all other players and guests stay, in      *)
(* their previous order.                                                   *)
C9_RemovesExactlyOne ==
    [][ (resp'.op = "unregister" /\ resp'.status = 200 /\ HasCurrentSlot)
        => LET before == CurrentSlot
               after == SlotAt(slots', CurrentDate)
           IN  /\ TotalRegistered(after) = TotalRegistered(before) - 1
               /\ \/ /\ after.guests = before.guests
                     /\ \E i \in 1..Len(before.players) :
                            after.players = Without(before.players, i)
                  \/ /\ after.players = before.players
                     /\ \E i \in 1..Len(before.guests) :
                            after.guests = Without(before.guests, i) ]_vars

\* the occupant count of the slot for date d in ss, 0 when there is none
CountAt(ss, d) == IF FindSlotIdx(ss, d) = 0 THEN 0 ELSE TotalRegistered(SlotAt(ss, d))

(* C10: in every reachable state in which register_player by u succeeds,   *)
(* the unregister of u by u that follows it at once succeeds, brings the   *)
(* occupant count back to what it was and leaves u's username out of the   *)
(* display list, and one more unregister of u by u fails.                  *)
C10_RegisterUnregisterRoundTrip ==
    \A u \in Usernames :
        LET r1 == register_player(slots, users, now, u)
            r2 == unregister_player(r1.slots, users, now, u, u)
            r3 == unregister_player(r2.slots, users, now, u, u)
        IN  r1.resp.status = 200 =>
                /\ r2.resp.status = 200
                /\ r2.resp.view.player_count = CountAt(slots, CurrentDate)
                /\ u \notin Range(r2.resp.view.players)
                /\ r3.resp.status # 200

-----------------------------------------------------------------------------
\* the slot for the current date holds exactly n occupants
CurrentSlotHolds(n) == HasCurrentSlot /\ TotalRegistered(CurrentSlot) = n

-----------------------------------------------------------------------------
\* the ids of the occupants of a slot
OccupantIds(slot) == Range(PlayerIds(slot)) \cup Range(GuestIds(slot))

(* C12: in every reachable state, every id stored in teamA or teamB of a   *)
(* slot is the user_id of a player or the guest_id of a guest of that      *)
(* slot, also after the unregister and register calls that follow a        *)
(* successful set_team_composition.                                        *)
C12_TeamIdsAreOccupants ==
    \A i \in 1..Len(slots) :
        Range(slots[i].teamA) \cup Range(slots[i].teamB) \subseteq OccupantIds(slots[i])

-----------------------------------------------------------------------------
\* the ids of a list of team details, in order
DetailIds(details) == [i \in 1..Len(details) |-> details[i].id]

\* two lists of 5 ids that share none and repeat none
TwoDisjointFives(teamA, teamB) ==
    /\ Len(teamA) = 5
    /\ Len(teamB) = 5
    /\ Cardinality(Range(teamA) \cup Range(teamB)) = 10

(* C13: set_team_composition succeeds exactly when the caller is an admin, *)
(* teamA and teamB hold 5 ids each, the two hold 10 distinct ids together, *)
(* the current slot exists and every id is the user_id or guest_id of one  *)
(* of its occupants.  On success the stored teams are the given lists and  *)
(* the view that follows shows them; on failure the Slots collection is    *)
(* as before.  So the teams of a slot are both empty or two disjoint lists *)
(* of 5.                                                                   *)
C13_SetTeamsExactly ==
    /\ [][ resp'.op = "set_teams" =>
             LET teamA == resp'.target[1]
                 teamB == resp'.target[2]
                 accepted ==
                     /\ IsAdmin(resp'.actor)
                     /\ TwoDisjointFives(teamA, teamB)
                     /\ HasCurrentSlot
                     /\ Range(teamA) \cup Range(teamB) \subseteq OccupantIds(CurrentSlot)
                 next_view == get_current_slot(slots', now).resp.view
             IN  /\ (resp'.status = 200) <=> accepted
                 /\ resp'.status = 200 =>
                       /\ SlotAt(slots', CurrentDate).teamA = teamA
                       /\ SlotAt(slots', CurrentDate).teamB = teamB
                       /\ DetailIds(next_view.teamA) = teamA
                       /\ DetailIds(next_view.teamB) = teamB
                 /\ resp'.status # 200 => slots' = slots ]_vars
    /\ [](\A i \in 1..Len(slots) :
             \/ slots[i].teamA = <<>> /\ slots[i].teamB = <<>>
             \/ TwoDisjointFives(slots[i].teamA, slots[i].teamB))

\* the admin's split of the ten occupants was accepted and is stored
C13_Witness ==
    /\ resp.op = "set_teams"
    /\ resp.status = 200
    /\ HasCurrentSlot
    /\ CurrentSlot.teamA = resp.target[1]
    /\ CurrentSlot.teamB = resp.target[2]
    /\ DetailIds(resp.view.teamA) = resp.target[1]

-----------------------------------------------------------------------------
(* C14: an invitation token is used once: in every reachable state, when   *)
(* a signup presenting the token string t succeeds, a signup presenting t  *)
(* that comes after it fails and creates no user, whether it follows at    *)
(* once or after a generate-invite call of the admin.                      *)
C14_TokenSingleUse ==
    \A t \in IdTokens, u1 \in SignupNames, u2 \in SignupNames :
        LET pin == Pin("1", "2", "3", "4")
            r1 == signup(users, invitations, nextUid, now, u1, pin, t)
            again == signup(r1.users, r1.invitations, r1.nextUid, now, u2, pin, t)
        IN  r1.resp.status = 200 =>
              /\ again.resp.status # 200 /\ again.users = r1.users
              /\ \A tok \in IdTokens :
                     LET r2 == generate_invite_token(r1.users, r1.invitations, r1.nextUid,
                                                     now, Admin, tok)
                         r3 == signup(r2.users, r2.invitations, r2.nextUid, now, u2, pin, t)
                     IN  r3.resp.status # 200 /\ r3.users = r2.users

-----------------------------------------------------------------------------
\* no request is in flight
AllIdle == \A p \in Procs : procs[p].pc = "idle"

(* C15: under every interleaving of concurrent signup requests each issued *)
(* token leads to at most one created user: once all requests have been    *)
(* answered, no more users were created than tokens were consumed, so two  *)
(* signups that present the same token never both succeed.                 *)
C15_OneUserPerToken ==
    AllIdle =>
        Len(users) - Len(InitUsers) <= Len(IssuedInvitations) - Len(invitations)

-----------------------------------------------------------------------------
\* exactly four ASCII digits
FourAsciiDigits(pin) == Len(pin) = 4 /\ \A i \in 1..4 : pin[i] \in AsciiDigits

(* C16: in every reachable state a signup succeeds exactly when its pin is *)
(* four digits, its username is borne by no user, and a token with the     *)
(* presented string is stored whose expiresAt is not before now; a signup  *)
(* that succeeds adds one user, of role user and with that username and    *)
(* pin, and removes one token document bearing the string; a signup that   *)
(* fails leaves Users and InvitationTokens as they were.                   *)
C16_SignupExactly ==
    \A u \in SignupNames, pin \in SignupPins, tok \in IdTokens :
        LET r == signup(users, invitations, nextUid, now, u, pin, tok)
            valid == { i \in 1..Len(invitations) :
                          invitations[i].token = tok /\ now <= invitations[i].expiresAt }
            accepted == FourAsciiDigits(pin) /\ ~HasUser(u) /\ valid # {}
        IN  /\ (r.resp.status = 200) <=> accepted
            /\ r.resp.status = 200 =>
                  /\ Len(r.users) = Len(users) + 1
                  /\ SubSeq(r.users, 1, Len(users)) = users
                  /\ r.users[Len(r.users)].username = u
                  /\ r.users[Len(r.users)].pin = pin
                  /\ r.users[Len(r.users)].role = "user"
                  /\ \E i \in 1..Len(invitations) :
                         invitations[i].token = tok /\ r.invitations = RemoveAt(invitations, i)
            /\ r.resp.status # 200 =>
                  (r.users = users /\ r.invitations = invitations)

-----------------------------------------------------------------------------
(* C17: usernames are unique: in every reachable state, also under         *)
(* interleaved signup requests that present different valid tokens and the *)
(* same username, no two User records share a username.                    *)
C17_UsernamesUnique ==
    \A i, j \in 1..Len(users) : users[i].username = users[j].username => i = j

-----------------------------------------------------------------------------
\* the pin authenticates the username in the Users collection us
Authenticates(us, username, pin) ==
    login(us, invitations, nextUid, username, pin).resp.detail = "login_ok"

(* C18: in every reachable state, a change_pin call whose (username,       *)
(* old_pin) matches a user and whose new_pin is four digits succeeds, also *)
(* when new_pin equals old_pin; after a success new_pin and no other pin   *)
(* authenticates the user; and a call that fails is answered 400 when      *)
(* new_pin is malformed and 403 when the credentials are wrong, never 500, *)
(* and leaves the Users collection as it was.                              *)
C18_ChangePinContract ==
    \A u \in PinUsers, old_pin \in PinInputs, new_pin \in PinInputs :
        LET r == change_pin(users, invitations, nextUid, u, old_pin, new_pin)
            matches == \E k \in 1..Len(users) :
                           users[k].username = u /\ users[k].pin = old_pin
        IN  /\ (matches /\ FourAsciiDigits(new_pin)) => r.resp.status = 200
            /\ r.resp.status = 200 =>
                  \A pin \in PinInputs : Authenticates(r.users, u, pin) <=> pin = new_pin
            /\ r.resp.status # 200 =>
                  /\ r.resp.status \in {400, 403}
                  /\ r.resp.status = 400 => ~FourAsciiDigits(new_pin)
                  /\ r.resp.status = 403 => ~matches
                  /\ r.users = users

-----------------------------------------------------------------------------
\* the operations reserved to admins
AdminOps == {"list_users", "delete_user", "reset_pin", "generate_invite",
             "set_teams", "slot_details", "set_scores"}

(* C19: every admin-only operation (list users, delete user, reset PIN,    *)
(* generate invite token, set team composition, slot details, set scores)  *)
(* called with an admin_username that is not a user of role admin fails    *)
(* with status 403 and leaves Users, InvitationTokens and Slots unchanged. *)
C19_AdminOnly ==
    [][ (resp'.op \in AdminOps /\ ~IsAdmin(resp'.actor))
        => ( /\ resp'.status = 403
             /\ users' = users
             /\ invitations' = invitations
             /\ slots' = slots ) ]_vars

\* a plain user called an admin endpoint on a state in which the admin's
\* call would have changed a collection, and was refused
C19_Witness ==
    /\ resp.op \in {"delete_user", "set_teams", "generate_invite"}
    /\ resp.status = 403
    /\ IsPlainUser(resp.actor)
    /\ HasCurrentSlot
    /\ TotalRegistered(CurrentSlot) = MAX_PLAYERS

-----------------------------------------------------------------------------
\* the day an instant falls on, counted from Monday of week 0
DayOf(t) == t \div DaySeconds

\* the instant 19:00:00 of day d
MatchTimeOn(d) == d * DaySeconds + MATCH_HOUR * 3600

\* the first Wednesday after day d
WednesdayAfter(d) == CHOOSE w \in (d + 1)..(d + 7) : w % 7 = MATCH_DAY

(* C20: get_next_wednesday_at_19 yields today at 19:00:00 when now is a    *)
(* Wednesday before 19:00, and 19:00:00 of the next Wednesday otherwise    *)
(* (Wednesday 18:59 gives the same day, Wednesday 19:00:01 the Wednesday 7 *)
(* days later); what it yields is always a Wednesday at exactly 19:00:00,  *)
(* and it is the date of the slot that a look-up at that instant shows.    *)
C20_NextWednesdayAt19 ==
    LET result == get_next_wednesday_at_19(now)
        today == DayOf(now)
    IN  /\ (today % 7 = MATCH_DAY /\ now < MatchTimeOn(today))
              => result = MatchTimeOn(today)
        /\ ~(today % 7 = MATCH_DAY /\ now < MatchTimeOn(today))
              => result = MatchTimeOn(WednesdayAfter(today))
        /\ (today % 7 = MATCH_DAY /\ now > MatchTimeOn(today))
              => result = MatchTimeOn(today + 7)
        /\ DayOf(result) % 7 = MATCH_DAY
        /\ result = MatchTimeOn(DayOf(result))
        /\ get_current_slot(slots, now).resp.view.date = result

\* the slot was looked up on Wednesday at 18:59:59 and is that evening's
C20_Witness ==
    /\ now = At(1, MATCH_DAY, 18, 59, 59)
    /\ resp.op = "current_slot"
    /\ resp.view.date = At(1, MATCH_DAY, MATCH_HOUR, 0, 0)
    /\ HasCurrentSlot

-----------------------------------------------------------------------------
(* C21: at exactly Wednesday 19:00:00 the computed slot date is today,     *)
(* that same Wednesday at 19:00, not the Wednesday seven days later, and   *)
(* it is the date of the slot a look-up at that instant shows.             *)
C21_WednesdayAt19IsToday ==
    (DayOf(now) % 7 = MATCH_DAY /\ now = MatchTimeOn(DayOf(now))) =>
        /\ get_next_wednesday_at_19(now) = now
        /\ get_current_slot(slots, now).resp.view.date = now

-----------------------------------------------------------------------------
\* the seconds gone since Monday 00:00:00 of the week t falls in
SecondsIntoWeek(t) == t % (7 * DaySeconds)

(* C22: at every wall-clock time, is_registration_open is true exactly     *)
(* from Monday 12:00:00 up to, and not including, Wednesday 20:00:00 of    *)
(* the same week, and the current-slot view reports that value.            *)
C22_WindowMondayNoonToWednesday20 ==
    LET open == /\ SecondsIntoWeek(now) >= 12 * 3600
                /\ SecondsIntoWeek(now) < 2 * DaySeconds + 20 * 3600
    IN  /\ is_registration_open(now) <=> open
        /\ get_current_slot(slots, now).resp.view.isRegistrationOpen <=> open
        /\ now \in { At(1, 0, 12, 0, 0), At(1, 1, 0, 0, 0), At(1, 1, 23, 59, 59),
                     At(1, 2, 19, 59, 59) } => is_registration_open(now)
        /\ now \in { At(1, 0, 11, 59, 59), At(1, 2, 20, 0, 0) }
               => ~is_registration_open(now)
        /\ weekday(now) \in 3..6 => ~is_registration_open(now)

\* the slot was looked up at Wednesday 19:59:59 and the view says open
C22_Witness ==
    /\ now = At(1, 2, 19, 59, 59)
    /\ resp.op = "current_slot"
    /\ resp.view.isRegistrationOpen
    /\ resp.view.date = At(2, MATCH_DAY, MATCH_HOUR, 0, 0)

\* C23: slot creation is idempotent, the slot's date being a unique key:
\* after any set of registration requests for the same computed date,
\* including interleavings in which every request finds no slot, at most
\* one slot document with that date exists.
C23_OneSlotPerDate ==
    \A i, j \in 1..Len(slots) : slots[i].date = slots[j].date => i = j

\* every player and guest entry of every slot document
Entries(ss) ==
    UNION { Range(ss[i].players) \cup Range(ss[i].guests) : i \in 1..Len(ss) }

\* C24: no entry is added while the registration window is closed or for a
\* username that is no user's: such a register_player or register_guest
\* request fails with 403, creates no slot document and leaves every slot
\* as it was; unregister by an unknown username fails with 403 and changes
\* nothing; so every entry there is was registered in an open window.
C24_NoEntryWhenClosedOrUnknown ==
    /\ \A u \in WindowCallers :
          (~is_registration_open(now) \/ ~HasUser(u)) =>
              /\ register_player(slots, users, now, u).resp.status = 403
              /\ register_player(slots, users, now, u).slots = slots
              /\ \A g \in WindowGuestNames :
                    /\ register_guest(slots, users, now, g, u).resp.status = 403
                    /\ register_guest(slots, users, now, g, u).slots = slots
    /\ \A u \in WindowCallers, n \in WindowTargets :
          ~HasUser(u) =>
              /\ unregister_player(slots, users, now, n, u).resp.status = 403
              /\ unregister_player(slots, users, now, n, u).slots = slots
    /\ \A e \in Entries(slots) : is_registration_open(e.registeredAt)

\* alice was refused at Wednesday 20:00:00, the window just closed, while
\* the slot holds what she registered before
C24_Witness ==
    /\ now = At(1, 2, 20, 0, 0)
    /\ resp.op = "register" /\ resp.actor = Alice
    /\ resp.status = 403 /\ resp.detail = "closed"
    /\ Entries(slots) # {}

\* the slot with date d, or an empty one when there is none yet
SlotOrNew(ss, d) == IF FindSlotIdx(ss, d) = 0 THEN NewSlot(d) ELSE SlotAt(ss, d)

\* the view lists the slot's players, then its guests, and no one else
ListsPlayersThenGuests(v, slot) ==
    LET np == Len(slot.players)
        ng == Len(slot.guests)
    IN  /\ Len(v.players) = np + ng
        /\ v.player_count = Len(v.players)
        /\ Len(v.timestamps) = Len(v.players)
        /\ \A i \in 1..np :
              /\ v.players[i] = slot.players[i].username
              /\ v.timestamps[i] = slot.players[i].registeredAt
        /\ \A j \in 1..ng :
              /\ v.players[np + j] =
                     InviteSep \o slot.guests[j].name \o ParSep
                               \o slot.guests[j].invitedBy \o <<"]">>
              /\ v.timestamps[np + j] = slot.guests[j].registeredAt

\* C25: every response that carries the slot view (current-slot, register,
\* register-guest, unregister) lists the player usernames in registration
\* order, then the guest display strings in registration order, whatever
\* the times of registration; player_count is the length of that list and
\* timestamps holds one time per element, in the same order.  So a player
\* just registered comes after the players there were and before every
\* guest, and a guest just registered comes last.
C25_PlayersThenGuests ==
    LET before == SlotOrNew(slots, CurrentDate)
        np == Len(before.players)
        ng == Len(before.guests)
        Listed(out) ==
            out.resp.view.has =>
                ListsPlayersThenGuests(out.resp.view,
                                       SlotOrNew(out.slots, out.resp.view.date))
    IN  /\ resp.view.has /\ resp.op \in {"current_slot", "register", "register_guest",
                                         "unregister"}
               => ListsPlayersThenGuests(resp.view, SlotOrNew(slots, resp.view.date))
        /\ Listed(get_current_slot(slots, now))
        /\ \A u \in Usernames :
              LET out == register_player(slots, users, now, u)
                  v == out.resp.view
              IN  /\ Listed(out)
                  /\ out.resp.status = 200 =>
                        /\ v.players = SubSeq(DisplayList(before), 1, np)
                                       \o <<u>>
                                       \o SubSeq(DisplayList(before), np + 1, np + ng)
                        /\ v.timestamps[np + 1] = now
        /\ \A u \in Usernames, g \in GuestNames :
              LET out == register_guest(slots, users, now, g, u)
                  v == out.resp.view
              IN  /\ Listed(out)
                  /\ out.resp.status = 200 =>
                        /\ SubSeq(v.players, 1, np + ng) = DisplayList(before)
                        /\ Len(v.players) = np + ng + 1
                        /\ v.timestamps[np + ng + 1] = now
        /\ \A a \in Actors, n \in Targets :
              Listed(unregister_player(slots, users, now, n, a))

\* alice, registered on Tuesday, is listed before the guests registered the
\* Wednesday before
C25_Witness ==
    /\ resp.op = "register" /\ resp.status = 200
    /\ resp.view.players[1] = Alice
    /\ resp.view.player_count = SeedGuests + 1
    /\ StartsWith(resp.view.players[2], InvitePrefix)
    /\ resp.view.timestamps[1] > resp.view.timestamps[2]

\* C26: in every state reached by signups, deletions of users,
\* registrations of players and guests and unregistrations, the display
\* list returned for the current slot has no two equal entries: no username
\* twice and no guest display string twice.
C26_DisplayListHasNoDuplicates ==
    LET listed == get_current_slot(slots, now).resp.view.players
    IN  \A i, j \in 1..Len(listed) : listed[i] = listed[j] => i = j

\* C27: register_player makes its checks in the order registration window
\* open, user exists, capacity not exceeded, not already present by
\* user_id, and reports the first that fails: an unknown username while
\* the window is closed gets the registration-closed failure, an already
\* registered user on a full slot gets the slot-full failure.
C27_CheckOrder ==
    \A u \in Usernames \cup {Mallory} :
        LET r == register_player(slots, users, now, u).resp
            first_failure ==
                IF ~is_registration_open(now) THEN <<403, "closed">>
                ELSE IF ~HasUser(u) THEN <<403, "auth_required">>
                ELSE IF CountAt(slots, CurrentDate) >= MAX_PLAYERS THEN <<400, "full">>
                ELSE IF AlreadyPresent(u) THEN <<400, "already_registered">>
                ELSE <<200, "ok">>
        IN  <<r.status, r.detail>> = first_failure

\* alice, who is in the full slot already, was told that the slot is full
C27_Witness ==
    /\ resp.op = "register" /\ resp.actor = Alice
    /\ resp.status = 400 /\ resp.detail = "full"
    /\ is_registration_open(now)
    /\ AlreadyPresent(Alice)
    /\ CountAt(slots, CurrentDate) = MAX_PLAYERS

\* C28: admin_reset_user_pin called by an admin for the id of an existing
\* user always succeeds and leaves that user's pin at 0000, also when the
\* pin was 0000 before; it reports that the user was not found only when no
\* user has that id.
C28_ResetPinAlwaysSucceeds ==
    IsAdmin(Admin) =>
        \A user_id \in UserIdInputs :
            LET out == admin_reset_user_pin(users, invitations, nextUid, user_id, Admin)
                hits == { k \in 1..Len(users) : UidStr(users[k].id) = user_id }
            IN  /\ hits # {} =>
                      /\ out.resp.status = 200
                      /\ \A k \in hits : out.users[k].pin = <<"0", "0", "0", "0">>
                /\ out.resp.detail = "user_not_found" => hits = {}

\* the week an instant lies in, weeks starting on Monday 00:00:00
WeekOf(t) == t \div (7 * DaySeconds)

\* Wednesday 19:00:00 of week w
MatchOfWeek(w) == (7 * w + 2) * DaySeconds + 19 * 3600

\* the slot documents paired with each of their entries
SlotEntries ==
    UNION { { <<slots[i].date, e>> :
                  e \in Range(slots[i].players) \cup Range(slots[i].guests) } :
            i \in 1..Len(slots) }

\* C29 as stated: all registrations accepted within one registration window
\* (Monday 12:00 to Wednesday 20:00 of one week) are written to one slot,
\* that of the week's Wednesday 19:00; one accepted on Wednesday between
\* 19:00:00 and 19:59:59 lies in the same slot document as one accepted on
\* the Monday or Tuesday before.
C29_OneSlotPerWindow ==
    \A se \in SlotEntries : se[1] = MatchOfWeek(WeekOf(se[2].registeredAt))

\* C29 as amended: a registration accepted from Monday 12:00:00 to
\* Wednesday before 19:00:00 is written to the slot of that week's Wednesday
\* 19:00; one accepted on Wednesday after 19:00:00 and before 20:00:00 is
\* written to the slot of the next week's Wednesday 19:00, the slot the
\* registrations of the next window go to.
C29_SlotSwitchesAtMatchTime ==
    LET Due(t) == IF SecondsIntoWeek(t) < SecondsIntoWeek(MatchOfWeek(0))
                  THEN MatchOfWeek(WeekOf(t))
                  ELSE MatchOfWeek(WeekOf(t) + 1)
        Settled(t) == t # MatchOfWeek(WeekOf(t))
    IN  /\ \A se \in SlotEntries :
              Settled(se[2].registeredAt) => se[1] = Due(se[2].registeredAt)
        /\ \A u \in WindowCallers :
              LET out == register_player(slots, users, now, u)
              IN  (Settled(now) /\ out.resp.status = 200) =>
                      /\ out.resp.view.date = Due(now)
                      /\ <<Due(now), PlayerEntry(UserOf(u), now)>> \notin SlotEntries
                      /\ PlayerEntry(UserOf(u), now)
                             \in Range(SlotAt(out.slots, Due(now)).players)
        /\ \A u \in WindowCallers, g \in WindowGuestNames :
              LET out == register_guest(slots, users, now, g, u)
              IN  (Settled(now) /\ out.resp.status = 200) =>
                      /\ out.resp.view.date = Due(now)
                      /\ GuestEntry(g, UserOf(u), now)
                             \in Range(SlotAt(out.slots, Due(now)).guests)

\* the slot of week 2 holds alice, registered on Wednesday of week 1 at
\* 19:59:59, and her guest, registered on Monday of week 2; the slot of
\* week 1 holds nobody
C29_Witness ==
    /\ <<MatchOfWeek(2), PlayerEntry(UserOf(Alice), At(1, 2, 19, 59, 59))>> \in SlotEntries
    /\ \E se \in SlotEntries :
          se[1] = MatchOfWeek(2) /\ se[2].registeredAt = At(2, 0, 12, 0, 0)
    /\ \A se \in SlotEntries : se[1] # MatchOfWeek(1)
    /\ resp.op = "register_guest" /\ resp.status = 200

\* C30: the Flask variant's get_next_wednesday returns the same instant as
\* the FastAPI application's get_next_wednesday_at_19 at every wall-clock
\* time; on a Wednesday before 19:00 both return that day at 19:00.
C30_VariantsAgree ==
    /\ get_next_wednesday(now) = get_next_wednesday_at_19(now)
    /\ (weekday(now) = 2 /\ hour(now) < 19) =>
           get_next_wednesday(now) = ReplaceTime(now, 19, 0)

====
